---- MODULE Spec2Model ----
(***************************************************************************)
(* Model of the boardgames server: ServerData (src/server/src/server.rs),  *)
(* the data types of src/types/src/lib.rs and the lock protocol of         *)
(* ServerContext and the log-feed task (src/server/src/main.rs).           *)
(***************************************************************************)
EXTENDS Integers, Sequences, FiniteSets, TLC

(* ------------------------------ bounds -------------------------------- *)

\* Number of rooms create_room may create in one behaviour (caps next_room_id).
MaxRooms == 2
\* Number of rounds played in one game (caps round_history): a game with that
\* many rounds in its history accepts no further action.
MaxRounds == 2
\* Number of requests the server handles at the same time.
NumHandlers == 2

(* ------------------------------ inputs -------------------------------- *)

\* Player names offered to create_player_with_name.
Names == {"Alice", "Bob", "Charlie"}
\* Player ids offered as arguments: the ids the registry can issue and one more.
PlayerIdArgs == 0 .. Cardinality(Names)
\* Room ids offered as arguments: every id that can be issued; each is the id
\* of no room before it is issued and after its room is removed.
\* Game ids offered as arguments: the ids of two games and one more.
RoomIdArgs == 0 .. MaxRooms - 1
GameIdArgs == 0 .. 2

(* ------------------------------ types --------------------------------- *)

\* enum ActionKind
ActionKind == {"Rock", "Paper", "Scissors"}

\* enum EndCondition
TotalRounds(n) == [tag |-> "TotalRounds", n |-> n]
FirstToScore(n) == [tag |-> "FirstToScore", n |-> n]

\* enum RoundResult
Draw == [tag |-> "Draw"]
Winner(id) == [tag |-> "Winner", id |-> id]

\* Option<T>: a sequence of at most one element.
None == << >>
Some(v) == << v >>

\* struct GameSettings
GameSettings(pc, ec) ==
    [kind |-> "RockPaperScissors", player_count |-> pc, end_condition |-> ec]

\* struct PlayerData
PlayerData(id, name) == [id |-> id, name |-> name]

\* struct RoomData
RoomData(id, name, settings, ps) ==
    [id |-> id, name |-> name, settings |-> settings, players |-> ps]

\* struct RoundData; inputs is a HashMap<PlayerId, ActionKind>: a function
\* whose domain is the set of keys.  RoundData::default() is the empty round.
RoundData(inputs, result) == [inputs |-> inputs, result |-> result]
RoundDataDefault == RoundData(<< >>, None)

\* The settings create_room falls back to when the caller gives none.
DefaultSettings == GameSettings(2, FirstToScore(3))

\* The Result an operation returns: Ok or one error kind.  The kinds name the
\* error messages of server.rs:
\*   NameTaken      "This name is already taken"
\*   UnknownPlayer  "Unknown player id"
\*   UnknownRoom    "Unknown room id"
\*   UnknownGame    "Unknown game id"
\*   AlreadyInRoom  "Player already in the room"
\*   RoomFull       "Room full"
\*   NotInRoom      "Player already left the room" / "Player not in the room"
\*   NotHost        "Player is not the host"
\*   RoomNotFull    "Room must be full to launch the game"
\*   NotInGame      "Player not in the game"
\*   GameEnded      "Game is not running anymore"
ErrorKinds ==
    {"NameTaken", "UnknownPlayer", "UnknownRoom", "UnknownGame", "AlreadyInRoom",
     "RoomFull", "NotInRoom", "NotHost", "RoomNotFull", "NotInGame", "GameEnded"}

(* ------------------------------ state --------------------------------- *)

VARIABLES
    games,           \* ServerData.games : Vec<GameData>
    players,         \* ServerData.players : Vec<PlayerData>
    rooms,           \* ServerData.rooms : Vec<RoomData>
    next_player_id,  \* ServerData.next_player_id
    next_game_id,    \* ServerData.next_game_id
    next_room_id,    \* ServerData.next_room_id
    pc,              \* the statement each task executes next
    guards,          \* the tasks that own a MutexGuard of ServerContext.server_data
    waiters,         \* the tasks suspended in server_data.lock().await, first come first
    local            \* the join_room call a handler serves step by step: its arguments and result

\* ServerContext.server_data, the value the Mutex protects.
server_data == << games, players, rooms, next_player_id, next_game_id, next_room_id >>

vars == << games, players, rooms, next_player_id, next_game_id, next_room_id,
           pc, guards, waiters, local >>

\* The tasks of main: the log-feed task, and one task per request in progress.
LogFeed == 0
Handlers == 1 .. NumHandlers
Tasks == {LogFeed} \cup Handlers

(* ------------------------------ helpers ------------------------------- *)

\* The elements of a sequence.
Range(s) == {s[i] : i \in 1 .. Len(s)}

\* Vec::remove(index)
Remove(s, i) == [k \in 1 .. Len(s) - 1 |-> IF k < i THEN s[k] ELSE s[k + 1]]

\* Vec::retain over a predicate given as the set of elements to keep.
RECURSIVE Retain(_, _)
Retain(s, keep) ==
    IF s = << >> THEN << >>
    ELSE IF Head(s) \in keep THEN << Head(s) >> \o Retain(Tail(s), keep)
    ELSE Retain(Tail(s), keep)

\* iter().find(|x| x.id == id): the index of the first element with that id, 0 if none.
FindIndex(s, id) ==
    IF \E i \in 1 .. Len(s) : s[i].id = id
    THEN CHOOSE i \in 1 .. Len(s) : s[i].id = id /\ \A k \in 1 .. i - 1 : s[k].id # id
    ELSE 0

\* ServerData::default()
\* ServerContext::new and the tasks main spawns: the lock is free, nobody
\* waits, the log-feed task is at the top of its loop and no request is in
\* progress.
ServerContext_new ==
    /\ guards = {}
    /\ waiters = << >>
    /\ pc = [t \in Tasks |-> IF t = LogFeed THEN "loop" ELSE "idle"]
    /\ local = [t \in Handlers |-> None]

\* ServerData::default()
Init ==
    /\ games = << >>
    /\ players = << >>
    /\ rooms = << >>
    /\ next_player_id = 0
    /\ next_game_id = 0
    /\ next_room_id = 0
    /\ ServerContext_new

\* A call of a method of ServerData by its owner, as the unit tests make it.
direct(func) == func /\ UNCHANGED << pc, guards, waiters, local >>

(* --------------------------- Player Registry -------------------------- *)

\* Every operation below is an action over the aggregate; the Result it
\* returns is given by its <operation>_check operator ("Ok" or the error kind
\* of the first failing check), and a call that returns an error is a step
\* that leaves every variable unchanged.

\* A name with its capitals replaced by small letters.
lowercase(name) ==
    CASE name = "Alice" -> "alice"
      [] name = "Bob" -> "bob"
      [] name = "Charlie" -> "charlie"
      [] OTHER -> name

\* create_player_with_name_check with a comparison that ignores case.
create_player_with_name_check_ignore_case(player_name) ==
    IF \E i \in 1 .. Len(players) : lowercase(players[i].name) = lowercase(player_name)
    THEN "NameTaken"
    ELSE "Ok"

\* The check of create_player_with_name: the Result it returns.
create_player_with_name_check(player_name) ==
    IF \E i \in 1 .. Len(players) : players[i].name = player_name
    THEN "NameTaken"
    ELSE "Ok"

\* ServerData::create_player_with_name (with ServerData::create_player, which
\* issues next_player_id and advances it)
create_player_with_name(player_name) ==
    IF create_player_with_name_check(player_name) # "Ok"
    THEN UNCHANGED server_data
    ELSE /\ players' = Append(players, PlayerData(next_player_id, player_name))
         /\ next_player_id' = next_player_id + 1
         /\ UNCHANGED << games, rooms, next_game_id, next_room_id >>

(* ----------------------------- Room Manager --------------------------- *)

\* settings.unwrap_or(GameSettings { player_count: 2, FirstToScore(3) })
unwrap_or(opt, default) == IF opt = None THEN default ELSE opt[1]

\* The checks of create_room, in order: the Result it returns.
create_room_check(player_id) ==
    IF FindIndex(players, player_id) = 0 THEN "UnknownPlayer" ELSE "Ok"

\* ServerData::create_room
create_room(player_id, room_name, settings) ==
    LET err == create_room_check(player_id) IN
    IF err # "Ok"
    THEN UNCHANGED server_data
    ELSE /\ next_room_id < MaxRooms
         /\ LET player_data == players[FindIndex(players, player_id)]
                room_data == RoomData(next_room_id, room_name,
                                      unwrap_or(settings, DefaultSettings),
                                      << player_data >>)
            IN rooms' = Append(rooms, room_data)
         /\ next_room_id' = next_room_id + 1
         /\ UNCHANGED << games, players, next_player_id, next_game_id >>

\* The capacity test with < in the place of <=.
room_is_full_strict(room_data) == room_data.settings.player_count < Len(room_data.players)

\* The capacity test of join_room: settings.player_count <= players.len()
room_is_full(room_data) == room_data.settings.player_count <= Len(room_data.players)

\* join_room_check with the capacity test moved before the membership test.
join_room_check_capacity_first(player_id, room_id) ==
    IF FindIndex(players, player_id) = 0 THEN "UnknownPlayer"
    ELSE IF FindIndex(rooms, room_id) = 0 THEN "UnknownRoom"
    ELSE LET room_data == rooms[FindIndex(rooms, room_id)] IN
         IF room_is_full(room_data) THEN "RoomFull"
         ELSE IF \E i \in 1 .. Len(room_data.players) : room_data.players[i].id = player_id
         THEN "AlreadyInRoom"
         ELSE "Ok"

\* join_room_check without the membership test.
join_room_check_no_membership(player_id, room_id) ==
    IF FindIndex(players, player_id) = 0 THEN "UnknownPlayer"
    ELSE IF FindIndex(rooms, room_id) = 0 THEN "UnknownRoom"
    ELSE IF room_is_full(rooms[FindIndex(rooms, room_id)]) THEN "RoomFull"
    ELSE "Ok"

\* The checks of join_room, in order: the Result it returns.
join_room_check(player_id, room_id) ==
    IF FindIndex(players, player_id) = 0 THEN "UnknownPlayer"
    ELSE IF FindIndex(rooms, room_id) = 0 THEN "UnknownRoom"
    ELSE LET room_data == rooms[FindIndex(rooms, room_id)] IN
         IF \E i \in 1 .. Len(room_data.players) : room_data.players[i].id = player_id
         THEN "AlreadyInRoom"
         ELSE IF room_is_full(room_data) THEN "RoomFull"
         ELSE "Ok"

\* join_room with the push moved before the capacity check: a call that
\* returns RoomFull has already added the player.
join_room_push_first(player_id, room_id) ==
    LET err == join_room_check(player_id, room_id) IN
    IF err \notin {"Ok", "RoomFull"}
    THEN UNCHANGED server_data
    ELSE /\ LET player_data == players[FindIndex(players, player_id)]
                room_index == FindIndex(rooms, room_id)
            IN rooms' = [rooms EXCEPT ![room_index].players = Append(@, player_data)]
         /\ UNCHANGED << games, players, next_player_id, next_game_id, next_room_id >>

\* ServerData::join_room
join_room(player_id, room_id) ==
    LET err == join_room_check(player_id, room_id) IN
    IF err # "Ok"
    THEN UNCHANGED server_data
    ELSE /\ LET player_data == players[FindIndex(players, player_id)]
                room_index == FindIndex(rooms, room_id)
            IN rooms' = [rooms EXCEPT ![room_index].players = Append(@, player_data)]
         /\ UNCHANGED << games, players, next_player_id, next_game_id, next_room_id >>

\* The checks of leave_room, in order: the Result it returns.
leave_room_check(player_id, room_id) ==
    IF FindIndex(players, player_id) = 0 THEN "UnknownPlayer"
    ELSE IF FindIndex(rooms, room_id) = 0 THEN "UnknownRoom"
    ELSE LET room_data == rooms[FindIndex(rooms, room_id)] IN
         IF ~ \E i \in 1 .. Len(room_data.players) : room_data.players[i].id = player_id
         THEN "NotInRoom"
         ELSE "Ok"

\* leave_room_rooms with Vec::swap_remove in the place of retain_mut: the
\* last member takes the place of the one who leaves.
leave_room_rooms_swap(player_id, room_index) ==
    LET room_data == rooms[room_index]
        n == Len(room_data.players)
        at == FindIndex(room_data.players, player_id)
        kept == [i \in 1 .. n - 1 |->
                    IF i = at THEN room_data.players[n] ELSE room_data.players[i]]
    IN IF kept = << >>
       THEN Remove(rooms, room_index)
       ELSE [rooms EXCEPT ![room_index].players = kept]

\* leave_room_rooms without the removal of the room that has become empty.
leave_room_rooms_keeps_empty(player_id, room_index) ==
    LET room_data == rooms[room_index]
        kept == Retain(room_data.players,
                       {p \in Range(room_data.players) : p.id # player_id})
    IN [rooms EXCEPT ![room_index].players = kept]

\* The room list leave_room leaves behind: the player retained out of the
\* room, and the room removed when it has become empty.
leave_room_rooms(player_id, room_index) ==
    LET room_data == rooms[room_index]
        kept == Retain(room_data.players,
                       {p \in Range(room_data.players) : p.id # player_id})
    IN IF kept = << >>
       THEN Remove(rooms, room_index)
       ELSE [rooms EXCEPT ![room_index].players = kept]

\* ServerData::leave_room
leave_room(player_id, room_id) ==
    LET err == leave_room_check(player_id, room_id) IN
    IF err # "Ok"
    THEN UNCHANGED server_data
    ELSE /\ rooms' = leave_room_rooms(player_id, FindIndex(rooms, room_id))
         /\ UNCHANGED << games, players, next_player_id, next_game_id, next_room_id >>

\* get_room_data_check without the membership test.
get_room_data_check_no_membership(player_id, room_id) ==
    IF FindIndex(players, player_id) = 0 THEN "UnknownPlayer"
    ELSE IF FindIndex(rooms, room_id) = 0 THEN "UnknownRoom"
    ELSE "Ok"

\* The checks of get_room_data, in order: the Result it returns.
get_room_data_check(player_id, room_id) ==
    IF FindIndex(players, player_id) = 0 THEN "UnknownPlayer"
    ELSE IF FindIndex(rooms, room_id) = 0 THEN "UnknownRoom"
    ELSE LET room_data == rooms[FindIndex(rooms, room_id)] IN
         IF ~ \E i \in 1 .. Len(room_data.players) : room_data.players[i].id = player_id
         THEN "NotInRoom"
         ELSE "Ok"

\* ServerData::get_room_data (&self: a read that returns a clone of the room)
get_room_data(player_id, room_id) ==
    /\ get_room_data_check(player_id, room_id) \in ErrorKinds \cup {"Ok"}
    /\ UNCHANGED server_data

\* ServerData::get_rooms_list (&self: a read that returns a clone of rooms)
get_rooms_list ==
    UNCHANGED server_data

\* struct GameData
GameData(id, settings, ps, current_round, round_history, status) ==
    [id |-> id, settings |-> settings, players |-> ps,
     current_round |-> current_round, round_history |-> round_history,
     status |-> status]

\* The GameData literal of create_game: the game built from a room.
new_game(game_id, room_data) ==
    GameData(game_id,
             room_data.settings,
             [i \in 1 .. Len(room_data.players) |-> << room_data.players[i], 0 >>],
             RoundData(<< >>, None),
             << >>,
             "Running")

\* create_game taking the id of the room in the place of next_game_id.
create_game_room_id(room_data) == new_game(room_data.id, room_data)

\* ServerData::create_game: the game with id next_game_id (the caller's step
\* also advances next_game_id).
create_game(room_data) == new_game(next_game_id, room_data)

\* launch_room_check with the test of the room's size moved before the test
\* of the caller's position.
launch_room_check_size_first(player_id, room_id) ==
    IF FindIndex(players, player_id) = 0 THEN "UnknownPlayer"
    ELSE IF FindIndex(rooms, room_id) = 0 THEN "UnknownRoom"
    ELSE LET room_data == rooms[FindIndex(rooms, room_id)]
             player_index == FindIndex(room_data.players, player_id)
         IN IF player_index = 0 THEN "NotInRoom"
            ELSE IF Len(room_data.players) # room_data.settings.player_count
                 THEN "RoomNotFull"
            ELSE IF player_index # 1 THEN "NotHost"
            ELSE "Ok"

\* The checks of launch_room, in order: the Result it returns.
launch_room_check(player_id, room_id) ==
    IF FindIndex(players, player_id) = 0 THEN "UnknownPlayer"
    ELSE IF FindIndex(rooms, room_id) = 0 THEN "UnknownRoom"
    ELSE LET room_data == rooms[FindIndex(rooms, room_id)]
             player_index == FindIndex(room_data.players, player_id)
         IN IF player_index = 0 THEN "NotInRoom"
            ELSE IF player_index # 1 THEN "NotHost"
            ELSE IF Len(room_data.players) # room_data.settings.player_count
                 THEN "RoomNotFull"
            ELSE "Ok"

\* launch_room without the removal of the launched room.
launch_room_keeps_room(player_id, room_id) ==
    LET err == launch_room_check(player_id, room_id) IN
    IF err # "Ok"
    THEN UNCHANGED server_data
    ELSE /\ games' = Append(games, create_game(rooms[FindIndex(rooms, room_id)]))
         /\ next_game_id' = next_game_id + 1
         /\ UNCHANGED << players, rooms, next_player_id, next_room_id >>

\* ServerData::launch_room
launch_room(player_id, room_id) ==
    LET err == launch_room_check(player_id, room_id) IN
    IF err # "Ok"
    THEN UNCHANGED server_data
    ELSE /\ LET room_index == FindIndex(rooms, room_id)
                game_data == create_game(rooms[room_index])
            IN /\ games' = Append(games, game_data)
               /\ rooms' = Remove(rooms, room_index)
         /\ next_game_id' = next_game_id + 1
         /\ UNCHANGED << players, next_player_id, next_room_id >>

(* ------------------------------ Game Engine --------------------------- *)

\* The checks of get_game_data, in order: the Result it returns.
get_game_data_check(player_id, game_id) ==
    IF FindIndex(players, player_id) = 0 THEN "UnknownPlayer"
    ELSE IF FindIndex(games, game_id) = 0 THEN "UnknownGame"
    ELSE LET game_data == games[FindIndex(games, game_id)] IN
         IF ~ \E i \in 1 .. Len(game_data.players) : game_data.players[i][1].id = player_id
         THEN "NotInGame"
         ELSE "Ok"

\* ServerData::get_game_data (&self: a read that returns a clone of the game)
get_game_data(player_id, game_id) ==
    /\ get_game_data_check(player_id, game_id) \in ErrorKinds \cup {"Ok"}
    /\ UNCHANGED server_data

\* play_round_check without its last check, the one of the game's status.
play_round_check_no_status(player_id, game_id) ==
    IF FindIndex(players, player_id) = 0 THEN "UnknownPlayer"
    ELSE IF FindIndex(games, game_id) = 0 THEN "UnknownGame"
    ELSE LET game_data == games[FindIndex(games, game_id)] IN
         IF ~ \E i \in 1 .. Len(game_data.players) : game_data.players[i][1].id = player_id
         THEN "NotInGame"
         ELSE "Ok"

\* play_round_check without the test that the player is in the game.
play_round_check_no_membership(player_id, game_id) ==
    IF FindIndex(players, player_id) = 0 THEN "UnknownPlayer"
    ELSE IF FindIndex(games, game_id) = 0 THEN "UnknownGame"
    ELSE IF games[FindIndex(games, game_id)].status # "Running" THEN "GameEnded"
    ELSE "Ok"

\* The checks of play_round, in order: the Result it returns.
play_round_check(player_id, game_id) ==
    IF FindIndex(players, player_id) = 0 THEN "UnknownPlayer"
    ELSE IF FindIndex(games, game_id) = 0 THEN "UnknownGame"
    ELSE LET game_data == games[FindIndex(games, game_id)] IN
         IF ~ \E i \in 1 .. Len(game_data.players) : game_data.players[i][1].id = player_id
         THEN "NotInGame"
         ELSE IF game_data.status # "Running" THEN "GameEnded"
         ELSE "Ok"

\* insert_input without and_modify: an entry that exists keeps its action.
insert_input_or_insert(inputs, player_id, action) ==
    [k \in DOMAIN inputs \cup {player_id} |-> IF k \in DOMAIN inputs THEN inputs[k] ELSE action]

\* inputs.entry(player_id).and_modify(|e| *e = action).or_insert(action)
insert_input(inputs, player_id, action) ==
    [k \in DOMAIN inputs \cup {player_id} |-> IF k = player_id THEN action ELSE inputs[k]]

\* all_played with `any` in the place of `!any`: some player has an input.
all_played_any(game_data, inputs) ==
    \E i \in 1 .. Len(game_data.players) : game_data.players[i][1].id \in DOMAIN inputs

\* The test that opens round resolution: no player of the game lacks an input.
all_played(game_data, inputs) ==
    ~ \E i \in 1 .. Len(game_data.players) : game_data.players[i][1].id \notin DOMAIN inputs

\* The orders in which HashMap::keys() may yield the keys of a map: the
\* iteration order of a HashMap is unspecified, so every permutation.
KeyOrders(inputs) ==
    LET n == Cardinality(DOMAIN inputs)
    IN {o \in [1 .. n -> DOMAIN inputs] : \A i, j \in 1 .. n : i # j => o[i] # o[j]}

\* The pairs visited by `while let Some(first) = keys.next() { for second in
\* keys.clone() { .. } }`: each key with every key that follows it.
RECURSIVE KeyPairs(_, _, _)
KeyPairs(keys, i, j) ==
    IF i > Len(keys) THEN << >>
    ELSE IF j > Len(keys) THEN KeyPairs(keys, i + 1, i + 2)
    ELSE << << keys[i], keys[j] >> >> \o KeyPairs(keys, i, j + 1)

\* The match with every pair of different actions won by the second player.
round_result_second_wins(p1, a1, p2, a2) ==
    IF a1 = a2 THEN Draw ELSE Winner(p2)

\* The match with two equal actions won by the first player of the pair.
round_result_first_breaks_ties(p1, a1, p2, a2) ==
    CASE a1 = a2 -> Winner(p1)
      [] << a1, a2 >> \in {<< "Rock", "Paper" >>, << "Paper", "Scissors" >>,
                          << "Scissors", "Rock" >>} -> Winner(p2)
      [] OTHER -> Winner(p1)

\* The match on the two actions of a pair.
round_result(p1, a1, p2, a2) ==
    CASE << a1, a2 >> \in {<< "Rock", "Rock" >>, << "Paper", "Paper" >>,
                          << "Scissors", "Scissors" >>} -> Draw
      [] << a1, a2 >> \in {<< "Rock", "Paper" >>, << "Paper", "Scissors" >>,
                          << "Scissors", "Rock" >>} -> Winner(p2)
      [] << a1, a2 >> \in {<< "Rock", "Scissors" >>, << "Paper", "Rock" >>,
                          << "Scissors", "Paper" >>} -> Winner(p1)

\* round_results: one result per visited pair, in the order visited.
round_results(inputs, keys) ==
    LET pairs == KeyPairs(keys, 1, 2)
    IN [k \in 1 .. Len(pairs) |->
           round_result(pairs[k][1], inputs[pairs[k][1]], pairs[k][2], inputs[pairs[k][2]])]

\* scored with at most one point a round: a player who has won a pair gets 1.
scored_once(game_players, results) ==
    [i \in 1 .. Len(game_players) |->
        << game_players[i][1],
           game_players[i][2]
             + (IF \E k \in 1 .. Len(results) : results[k] = Winner(game_players[i][1].id)
                THEN 1 ELSE 0) >>]

\* scored with the players collected in reverse order.
scored_reversed(game_players, results) ==
    [i \in 1 .. Len(game_players) |->
        LET j == Len(game_players) + 1 - i IN
        << game_players[j][1],
           game_players[j][2]
             + Cardinality({k \in 1 .. Len(results) : results[k] = Winner(game_players[j][1].id)}) >>]

\* The scores after the score += 1 of every decided pair.
scored(game_players, results) ==
    [i \in 1 .. Len(game_players) |->
        << game_players[i][1],
           game_players[i][2]
             + Cardinality({k \in 1 .. Len(results) : results[k] = Winner(game_players[i][1].id)}) >>]

\* max_by over the scores: the highest score (None for a game without players).
max_score(game_players) ==
    IF game_players = << >> THEN None
    ELSE Some(CHOOSE m \in {game_players[i][2] : i \in 1 .. Len(game_players)} :
                 \A i \in 1 .. Len(game_players) : game_players[i][2] <= m)

\* end_condition_met with the TotalRounds test one round late.
end_condition_met_late(game_data) ==
    LET ec == game_data.settings.end_condition IN
    IF ec.tag = "TotalRounds"
    THEN Len(game_data.round_history) = ec.n + 1
    ELSE max_score(game_data.players) # None /\ max_score(game_data.players)[1] = ec.n

\* end_condition_met with the FirstToScore test `max > x`.
end_condition_met_above(game_data) ==
    LET ec == game_data.settings.end_condition IN
    IF ec.tag = "TotalRounds"
    THEN Len(game_data.round_history) = ec.n
    ELSE max_score(game_data.players) # None /\ max_score(game_data.players)[1] > ec.n

\* The match on settings.end_condition after a round: whether the game ends.
end_condition_met(game_data) ==
    LET ec == game_data.settings.end_condition IN
    IF ec.tag = "TotalRounds"
    THEN Len(game_data.round_history) = ec.n
    ELSE max_score(game_data.players) # None /\ max_score(game_data.players)[1] = ec.n

\* resolve_round without the reset of current_round: the resolved round, with
\* its result, stays the current one.
resolve_round_keeps_round(game_data, inputs, keys) ==
    LET results == round_results(inputs, keys)
        resolved == [game_data EXCEPT
                        !.players = scored(game_data.players, results),
                        !.round_history = Append(@, RoundData(inputs, Some(results))),
                        !.current_round = RoundData(inputs, Some(results))]
    IN IF end_condition_met(resolved)
       THEN [resolved EXCEPT !.status = "Ended"]
       ELSE resolved

\* The resolution of a complete round, the keys of inputs being yielded in
\* the order keys.
resolve_round(game_data, inputs, keys) ==
    LET results == round_results(inputs, keys)
        resolved == [game_data EXCEPT
                        !.players = scored(game_data.players, results),
                        !.round_history = Append(@, RoundData(inputs, Some(results))),
                        !.current_round = RoundDataDefault]
    IN IF end_condition_met(resolved)
       THEN [resolved EXCEPT !.status = "Ended"]
       ELSE resolved

\* ServerData::play_round
play_round(player_id, game_id, action) ==
    LET err == play_round_check(player_id, game_id) IN
    IF err # "Ok"
    THEN UNCHANGED server_data
    ELSE LET game_index == FindIndex(games, game_id)
             game_data == games[game_index]
             inputs == insert_input(game_data.current_round.inputs, player_id, action)
         IN /\ Len(game_data.round_history) < MaxRounds
            /\ IF all_played(game_data, inputs)
               THEN \E keys \in KeyOrders(inputs) :
                       games' = [games EXCEPT
                                    ![game_index] = resolve_round(game_data, inputs, keys)]
               ELSE games' = [games EXCEPT ![game_index].current_round.inputs = inputs]
            /\ UNCHANGED << players, rooms, next_player_id, next_game_id, next_room_id >>

\* PlayerPublicData::from: the name of the player, without the id.
PlayerPublicData(player_data) == [name |-> player_data.name]

\* The clone of the players of a game, without their scores.
cloned_players(game_data) ==
    [i \in 1 .. Len(game_data.players) |-> game_data.players[i][1]]

\* waiting_for_players with retain keeping the players that have an input.
waiting_for_players_submitted(game_data) ==
    LET cloned == cloned_players(game_data)
        retained == Retain(cloned, {player_data \in Range(cloned) :
                                       player_data.id \in DOMAIN game_data.current_round.inputs})
    IN [k \in 1 .. Len(retained) |-> PlayerPublicData(retained[k])]

\* LaunchGetGameResponse::from, field waiting_for_players: the players are
\* cloned in game order, those with a key in current_round.inputs are dropped
\* by retain, and the rest is turned into public data.
waiting_for_players(game_data) ==
    LET cloned == cloned_players(game_data)
        retained == Retain(cloned, {player_data \in Range(cloned) :
                                       player_data.id \notin DOMAIN game_data.current_round.inputs})
    IN [k \in 1 .. Len(retained) |-> PlayerPublicData(retained[k])]

(* ---------------------------- specification --------------------------- *)

\* The settings offered to create_room: none (two players), and settings for
\* no player and for three players.
SettingsArgs ==
    {None,
     Some(GameSettings(0, TotalRounds(1))),
     Some(GameSettings(3, FirstToScore(1)))}

\* The room names offered to create_room.
RoomNames == {"test room"}

\* The lobby: every operation that changes the player registry or the rooms,
\* from the empty aggregate.
Next ==
    \/ \E name \in Names : direct(create_player_with_name(name))
    \/ \E p \in PlayerIdArgs, n \in RoomNames, s \in SettingsArgs : direct(create_room(p, n, s))
    \/ \E p \in PlayerIdArgs, r \in RoomIdArgs : direct(join_room(p, r))
    \/ \E p \in PlayerIdArgs, r \in RoomIdArgs : direct(leave_room(p, r))
    \/ \E p \in PlayerIdArgs, r \in RoomIdArgs : direct(launch_room(p, r))

Spec == Init /\ [][Next]_vars

\* The settings offered to create_room while rooms only fill: none (two
\* players), and settings for no player, one player and three players.
FillSettingsArgs == SettingsArgs \cup {Some(GameSettings(1, TotalRounds(1)))}

\* Rooms that only fill: players register, create rooms and join them, and
\* nobody leaves or launches.
NextFill ==
    \/ \E name \in Names : direct(create_player_with_name(name))
    \/ \E p \in PlayerIdArgs, n \in RoomNames, s \in FillSettingsArgs :
          direct(create_room(p, n, s))
    \/ \E p \in PlayerIdArgs, r \in RoomIdArgs : direct(join_room(p, r))

SpecFill == Init /\ [][NextFill]_vars

\* The names offered to create_player_with_name where only players register:
\* the three names, and two that differ from one of them by case alone.
RegistryNames == Names \cup {"alice", "bob"}

\* The registry alone: players register, under names taken or free.
NextRegistry ==
    \E name \in RegistryNames : direct(create_player_with_name(name))

SpecRegistry == Init /\ [][NextRegistry]_vars

(* ------------------- specifications with launched games -------------- *)

\* The registry the games below are launched from: Alice, Bob and Charlie,
\* registered in that order.
Registered ==
    << PlayerData(0, "Alice"), PlayerData(1, "Bob"), PlayerData(2, "Charlie") >>

\* The player sequences of the launched rooms, by number of players.
Solo == << Registered[1] >>
Duo == << Registered[2], Registered[3] >>
Trio == << Registered[2], Registered[3], Registered[1] >>

\* The aggregates the game engine is started from.  Each names the rooms
\* that were launched, in launch order (the i-th became game i - 1), and the
\* rooms still open: one game of one, two or three players under an end
\* condition of either kind; two games that share a player; a game beside an
\* open room.
Setups ==
    {[launched |-> << RoomData(0, "test room", GameSettings(2, ec), Duo) >>,
      open |-> << >>] :
        ec \in {FirstToScore(0), FirstToScore(1), FirstToScore(2), FirstToScore(3),
                TotalRounds(0), TotalRounds(1), TotalRounds(2)}}
    \cup {[launched |-> << RoomData(0, "test room", GameSettings(3, ec), Trio) >>,
           open |-> << >>] :
        ec \in {TotalRounds(1), TotalRounds(2)}}
    \cup {[launched |-> << RoomData(0, "test room", GameSettings(1, TotalRounds(1)), Solo) >>,
           open |-> << >>],
          [launched |-> << RoomData(0, "test room", GameSettings(2, TotalRounds(1)),
                                    << Registered[1], Registered[2] >>),
                           RoomData(1, "test room", GameSettings(2, FirstToScore(1)), Duo) >>,
           open |-> << >>],
          [launched |-> << RoomData(0, "test room", GameSettings(2, FirstToScore(1)), Duo) >>,
           open |-> << RoomData(1, "test room", GameSettings(2, TotalRounds(1)), Solo) >>]}

\* A three-player game that ends at the first score.
TrioSetups ==
    {[launched |-> << RoomData(0, "test room", GameSettings(3, FirstToScore(1)), Trio) >>,
      open |-> << >>]}

\* The aggregate after the three registrations and the creation, filling and
\* launch of the rooms of a setup, every room of the behaviour being created.
InitFrom(setups) ==
    /\ players = Registered
    /\ next_player_id = Len(Registered)
    /\ next_room_id = MaxRooms
    /\ ServerContext_new
    /\ \E setup \in setups :
          /\ rooms = setup.open
          /\ games = [i \in 1 .. Len(setup.launched) |-> new_game(i - 1, setup.launched[i])]
          /\ next_game_id = Len(setup.launched)

InitGame == InitFrom(Setups)

InitTrio == InitFrom(TrioSetups)

\* Every operation of the aggregate.
NextGame ==
    \/ Next
    \/ \E p \in PlayerIdArgs, r \in RoomIdArgs : direct(get_room_data(p, r))
    \/ direct(get_rooms_list)
    \/ \E p \in PlayerIdArgs, g \in GameIdArgs : direct(get_game_data(p, g))
    \/ \E p \in PlayerIdArgs, g \in GameIdArgs, a \in ActionKind : direct(play_round(p, g, a))

SpecGame == InitGame /\ [][NextGame]_vars

SpecTrio == InitTrio /\ [][NextGame]_vars

(* ------------------------- ServerContext ------------------------------ *)

\* The statement a task executes first once server_data.lock().await has
\* returned its guard: the first println of the log-feed task, func in
\* with_data and with_data_mut.
locked_pc(t) == IF t = LogFeed THEN "println_players" ELSE "func"

\* Mutex::lock that hands out a guard without testing whether one is out.
lock_without_test(t) ==
    /\ guards' = guards \cup {t}
    /\ pc' = [pc EXCEPT ![t] = locked_pc(t)]
    /\ UNCHANGED waiters

\* self.server_data.lock().await: the guard at once when the lock is free,
\* otherwise the task is suspended behind the tasks already waiting.
lock(t) ==
    IF guards = {}
    THEN /\ guards' = {t}
         /\ pc' = [pc EXCEPT ![t] = locked_pc(t)]
         /\ UNCHANGED waiters
    ELSE /\ waiters' = Append(waiters, t)
         /\ pc' = [pc EXCEPT ![t] = "waiting"]
         /\ UNCHANGED guards

\* The drop of a guard that wakes the task that came last.
drop_wakes_last(t, next) ==
    IF waiters = << >>
    THEN /\ guards' = guards \ {t}
         /\ pc' = [pc EXCEPT ![t] = next]
         /\ UNCHANGED waiters
    ELSE LET woken == waiters[Len(waiters)]
         IN /\ guards' = (guards \ {t}) \cup {woken}
            /\ waiters' = SubSeq(waiters, 1, Len(waiters) - 1)
            /\ pc' = [pc EXCEPT ![t] = next, ![woken] = locked_pc(woken)]

\* The drop of the MutexGuard at the end of its scope: the lock goes to the
\* task that has waited longest, or is free when nobody waits.
drop(t, next) ==
    IF waiters = << >>
    THEN /\ guards' = guards \ {t}
         /\ pc' = [pc EXCEPT ![t] = next]
         /\ UNCHANGED waiters
    ELSE LET woken == Head(waiters)
         IN /\ guards' = (guards \ {t}) \cup {woken}
            /\ waiters' = Tail(waiters)
            /\ pc' = [pc EXCEPT ![t] = next, ![woken] = locked_pc(woken)]

\* A request arrives: its handler calls a method of ServerContext, which
\* calls with_data or with_data_mut, which starts with lock().await.
request(t) ==
    /\ pc[t] = "idle"
    /\ lock(t)
    /\ UNCHANGED << server_data, local >>

\* ServerContext::with_data and with_data_mut: func runs on the locked
\* ServerData, from its first statement to its return.
with_data(t, func) ==
    /\ pc[t] = "func"
    /\ func
    /\ pc' = [pc EXCEPT ![t] = "drop"]
    /\ UNCHANGED << guards, waiters, local >>

\* The end of with_data and with_data_mut: the guard goes out of scope and
\* the result goes back to the handler.
with_data_return(t) ==
    /\ pc[t] = "drop"
    /\ drop(t, "respond")
    /\ UNCHANGED << server_data, local >>

\* The handler turns the result into the HTTP response.
respond(t) ==
    /\ pc[t] = "respond"
    /\ pc' = [pc EXCEPT ![t] = "idle"]
    /\ UNCHANGED << server_data, guards, waiters, local >>

\* The log-feed task, top of the loop: server_data.lock().await
log_feed_lock ==
    /\ pc[LogFeed] = "loop"
    /\ lock(LogFeed)
    /\ UNCHANGED << server_data, local >>

\* The three println! of the log-feed task, one after the other.
println_next(at) ==
    CASE at = "println_players" -> "println_rooms"
      [] at = "println_rooms" -> "println_games"
      [] at = "println_games" -> "end_of_block"

log_feed_println ==
    /\ pc[LogFeed] \in {"println_players", "println_rooms", "println_games"}
    /\ pc' = [pc EXCEPT ![LogFeed] = println_next(pc[LogFeed])]
    /\ UNCHANGED << server_data, guards, waiters, local >>

\* The end of the inner block of the log-feed task: the guard is dropped.
log_feed_drop ==
    /\ pc[LogFeed] = "end_of_block"
    /\ drop(LogFeed, "sleep")
    /\ UNCHANGED << server_data, local >>

\* std::thread::sleep(5000 ms), then the next iteration.
log_feed_sleep ==
    /\ pc[LogFeed] = "sleep"
    /\ pc' = [pc EXCEPT ![LogFeed] = "loop"]
    /\ UNCHANGED << server_data, guards, waiters, local >>

\* The server starts with Alice, Bob and Charlie registered and Alice alone in
\* a room for two players and one round.
LockSetups ==
    {[launched |-> << >>,
      open |-> << RoomData(0, "test room", GameSettings(2, TotalRounds(1)), Solo) >>]}

InitLock == InitFrom(LockSetups)

\* The server: requests arrive and are handled while the log feed runs.
NextLock ==
    \/ \E t \in Handlers : request(t)
    \/ \E t \in Handlers, name \in Names :
          with_data(t, create_player_with_name(name))
    \/ \E t \in Handlers : with_data(t, get_rooms_list)
    \/ \E t \in Handlers, p \in PlayerIdArgs, n \in RoomNames, s \in SettingsArgs :
          with_data(t, create_room(p, n, s))
    \/ \E t \in Handlers, p \in PlayerIdArgs, r \in RoomIdArgs :
          with_data(t, join_room(p, r))
    \/ \E t \in Handlers, p \in PlayerIdArgs, r \in RoomIdArgs :
          with_data(t, leave_room(p, r))
    \/ \E t \in Handlers, p \in PlayerIdArgs, r \in RoomIdArgs :
          with_data(t, get_room_data(p, r))
    \/ \E t \in Handlers, p \in PlayerIdArgs, r \in RoomIdArgs :
          with_data(t, launch_room(p, r))
    \/ \E t \in Handlers, p \in PlayerIdArgs, g \in GameIdArgs :
          with_data(t, get_game_data(p, g))
    \/ \E t \in Handlers, p \in PlayerIdArgs, g \in GameIdArgs, a \in ActionKind :
          with_data(t, play_round(p, g, a))
    \/ \E t \in Handlers : with_data_return(t)
    \/ \E t \in Handlers : respond(t)
    \/ log_feed_lock
    \/ log_feed_println
    \/ log_feed_drop
    \/ log_feed_sleep

SpecLock == InitLock /\ [][NextLock]_vars

\* One call of one method of ServerData, whatever its arguments.
Operation ==
    \/ \E name \in Names : create_player_with_name(name)
    \/ \E p \in PlayerIdArgs, n \in RoomNames, s \in SettingsArgs : create_room(p, n, s)
    \/ \E p \in PlayerIdArgs, r \in RoomIdArgs :
          join_room(p, r) \/ leave_room(p, r) \/ launch_room(p, r) \/ get_room_data(p, r)
    \/ \E p \in PlayerIdArgs, g \in GameIdArgs : get_game_data(p, g)
    \/ \E p \in PlayerIdArgs, g \in GameIdArgs, a \in ActionKind : play_round(p, g, a)
    \/ get_rooms_list

\* The steps of a task: those of the log feed, and those of a handler once
\* its request has arrived.
TaskStep(t) ==
    \/ /\ t = LogFeed
       /\ log_feed_lock \/ log_feed_println \/ log_feed_drop \/ log_feed_sleep
    \/ /\ t \in Handlers
       /\ with_data(t, Operation) \/ with_data_return(t) \/ respond(t)

\* The runtime runs every task that can run, and every statement returns.
FairSpecLock == SpecLock /\ \A t \in Tasks : WF_vars(TaskStep(t))

(* --------------------- join_room, statement by statement -------------- *)

\* The locals of a join_room call in progress: the arguments, and the Result
\* once the call has one.
JoinCall(player_id, room_id, result) ==
    [player_id |-> player_id, room_id |-> room_id, result |-> result]

\* A /room/join request arrives at a handler that has served none yet: the
\* handler calls ServerContext::join_room, which calls with_data_mut, which
\* starts with lock().await.
join_room_call(t, player_id, room_id) ==
    /\ pc[t] = "idle"
    /\ local[t] = None
    /\ lock(t)
    /\ local' = [local EXCEPT ![t] = Some(JoinCall(player_id, room_id, "Pending"))]
    /\ UNCHANGED server_data

\* ServerData::join_room up to the push: the player and the room are looked
\* up and the membership and the capacity are tested; a test that fails
\* returns its error.
join_room_tests(t) ==
    /\ pc[t] = "func"
    /\ local[t] # None
    /\ LET call == local[t][1]
           err == join_room_check(call.player_id, call.room_id)
       IN IF err # "Ok"
          THEN /\ local' = [local EXCEPT ![t] = Some([call EXCEPT !.result = err])]
               /\ pc' = [pc EXCEPT ![t] = "drop"]
          ELSE /\ pc' = [pc EXCEPT ![t] = "push"]
               /\ UNCHANGED local
    /\ UNCHANGED << server_data, guards, waiters >>

\* ServerData::join_room from the push: the player is pushed onto the room
\* found by the lookup, and the call returns Ok.
join_room_push(t) ==
    /\ pc[t] = "push"
    /\ LET call == local[t][1]
           player_data == players[FindIndex(players, call.player_id)]
           room_index == FindIndex(rooms, call.room_id)
       IN /\ rooms' = [rooms EXCEPT ![room_index].players = Append(@, player_data)]
          /\ local' = [local EXCEPT ![t] = Some([call EXCEPT !.result = "Ok"])]
    /\ pc' = [pc EXCEPT ![t] = "drop"]
    /\ UNCHANGED << games, players, next_player_id, next_game_id, next_room_id,
                    guards, waiters >>

\* The server under /room/join requests, one per handler, while the log feed
\* runs: Alice is alone in a room for two.
NextRace ==
    \/ \E t \in Handlers, p \in PlayerIdArgs, r \in RoomIdArgs : join_room_call(t, p, r)
    \/ \E t \in Handlers : join_room_tests(t)
    \/ \E t \in Handlers : join_room_push(t)
    \/ \E t \in Handlers : with_data_return(t)
    \/ \E t \in Handlers : respond(t)
    \/ log_feed_lock
    \/ log_feed_println
    \/ log_feed_drop
    \/ log_feed_sleep

SpecRace == InitLock /\ [][NextRace]_vars

(* ------------------------------- claims ------------------------------- *)

\* The ids of a game's players, in the game's player order.
PlayerOrder(game_data) ==
    [i \in 1 .. Len(game_data.players) |-> game_data.players[i][1].id]

\* The ids of the players of a game, and of the members of a room.
GamePlayerIds(game_data) == {game_data.players[i][1].id : i \in 1 .. Len(game_data.players)}
RoomPlayerIds(room_data) == {room_data.players[i].id : i \in 1 .. Len(room_data.players)}

\* C1: the result sequence of every resolved round lists the pairs in the
\* game's player order, (p0,p1), (p0,p2), ..., (p1,p2), ..., whatever the
\* order of submission.
C1_ResultsInPlayerOrder ==
    \A gi \in 1 .. Len(games) :
        \A ri \in 1 .. Len(games[gi].round_history) :
            LET round == games[gi].round_history[ri]
            IN round.result = Some(round_results(round.inputs, PlayerOrder(games[gi])))

\* C2: in a FirstToScore(n) game with n >= 1, no reachable state has status
\* Running while some player's score is >= n.
C2_EndsWhenScoreReached ==
    \A gi \in 1 .. Len(games) :
        LET game_data == games[gi]
            ec == game_data.settings.end_condition
        IN (ec.tag = "FirstToScore" /\ ec.n >= 1 /\ game_data.status = "Running")
              => \A i \in 1 .. Len(game_data.players) : game_data.players[i][2] < ec.n

\* The Result of play_round on an Ended game by caller p: the registry and
\* membership checks come before the status check.
EndedResult(p, game_data) ==
    IF \A i \in 1 .. Len(players) : players[i].id # p THEN "UnknownPlayer"
    ELSE IF p \notin GamePlayerIds(game_data) THEN "NotInGame"
    ELSE "GameEnded"

\* Every play_round call on an Ended game fails with GameEnded.
EndedRejectsAll ==
    \A gi \in 1 .. Len(games) :
        games[gi].status = "Ended" =>
            \A p \in PlayerIdArgs : play_round_check(p, games[gi].id) = "GameEnded"

\* Every play_round call on an Ended game fails: with GameEnded when the
\* caller is a player of the game, with the kind of the earlier check if not.
EndedRejects ==
    \A gi \in 1 .. Len(games) :
        games[gi].status = "Ended" =>
            \A p \in PlayerIdArgs :
                play_round_check(p, games[gi].id) = EndedResult(p, games[gi])

\* An Ended game stays Ended and no step changes it; in particular no step
\* that changes anything is a play_round call on it.
EndedFrozen ==
    \/ UNCHANGED server_data
    \/ \A gi \in 1 .. Len(games) :
          games[gi].status = "Ended" =>
              /\ gi <= Len(games') /\ games'[gi] = games[gi]
              /\ \A p \in PlayerIdArgs, a \in ActionKind :
                    ~ play_round(p, games[gi].id, a)

\* C3 as stated: once Ended a game never returns to Running, and every later
\* play_round call on it, whoever calls, fails with GameEnded and leaves the
\* game unchanged.
C3_Original == EndedRejectsAll

\* C3 as amended: once Ended a game never returns to Running, every later
\* play_round call on it by one of its players fails with GameEnded (a call
\* by anyone else fails with UnknownPlayer or NotInGame), and every such call
\* leaves current_round, round_history and scores unchanged.
C3_EndedIsTerminal == []EndedRejects /\ [][EndedFrozen]_vars

\* C3: a game has ended by its end condition.
C3_Witness ==
    \E gi \in 1 .. Len(games) :
        /\ games[gi].status = "Ended"
        /\ games[gi].round_history # << >>
        /\ Len(games[gi].players) = 2

\* C4: every room in the room set has 0 < len(players) <= player_count, for
\* every settings value create_room accepts.
C4_RoomSize ==
    \A ri \in 1 .. Len(rooms) :
        /\ 0 < Len(rooms[ri].players)
        /\ Len(rooms[ri].players) <= rooms[ri].settings.player_count

\* The Results an operation can return.
ResultKinds == ErrorKinds \cup {"Ok"}

\* Every call returns Ok or exactly one error kind.
OneResult ==
    /\ \A n \in Names : create_player_with_name_check(n) \in {"Ok", "NameTaken"}
    /\ \A p \in PlayerIdArgs :
          /\ create_room_check(p) \in {"Ok", "UnknownPlayer"}
          /\ \A r \in RoomIdArgs :
                /\ join_room_check(p, r) \in ResultKinds
                /\ leave_room_check(p, r) \in ResultKinds
                /\ get_room_data_check(p, r) \in ResultKinds
                /\ launch_room_check(p, r) \in ResultKinds
          /\ \A g \in GameIdArgs :
                /\ get_game_data_check(p, g) \in ResultKinds
                /\ play_round_check(p, g) \in ResultKinds

\* No step that changes the aggregate is a call that returns an error.
FailedCallsChangeNothing ==
    \/ UNCHANGED server_data
    \/ /\ \A n \in Names :
             ~ (create_player_with_name_check(n) # "Ok" /\ create_player_with_name(n))
       /\ \A p \in PlayerIdArgs :
             /\ \A n \in RoomNames, st \in SettingsArgs :
                   ~ (create_room_check(p) # "Ok" /\ create_room(p, n, st))
             /\ \A r \in RoomIdArgs :
                   /\ ~ (join_room_check(p, r) # "Ok" /\ join_room(p, r))
                   /\ ~ (leave_room_check(p, r) # "Ok" /\ leave_room(p, r))
                   /\ ~ (get_room_data_check(p, r) # "Ok" /\ get_room_data(p, r))
                   /\ ~ (launch_room_check(p, r) # "Ok" /\ launch_room(p, r))
             /\ \A g \in GameIdArgs :
                   /\ ~ (get_game_data_check(p, g) # "Ok" /\ get_game_data(p, g))
                   /\ \A a \in ActionKind :
                         ~ (play_round_check(p, g) # "Ok" /\ play_round(p, g, a))

\* C5: every operation that returns an error returns exactly one error kind
\* and leaves the player list, the room list, the game list and the three id
\* counters as they were.
C5_ErrorsLeaveStateUnchanged == []OneResult /\ [][FailedCallsChangeNothing]_vars

\* C5: calls that fail are at hand in the room manager and in the game
\* engine: a room is full while a registered player is outside it, and a game
\* has ended.
C5_Witness ==
    /\ \E p \in PlayerIdArgs, r \in RoomIdArgs : join_room_check(p, r) = "RoomFull"
    /\ \E p \in PlayerIdArgs, g \in GameIdArgs : play_round_check(p, g) = "GameEnded"

\* The Result of launch_room called by a member p of an open room: Ok iff p
\* is players[0] and the room is full, NotHost when p is not at position 0,
\* RoomNotFull when p is the host of a room that is not full.
LaunchResult(p, room_data) ==
    IF room_data.players[1].id # p THEN "NotHost"
    ELSE IF Len(room_data.players) # room_data.settings.player_count THEN "RoomNotFull"
    ELSE "Ok"

\* launch_room returns that Result to every member of every open room.
LaunchDecided ==
    \A ri \in 1 .. Len(rooms) :
        \A p \in RoomPlayerIds(rooms[ri]) :
            launch_room_check(p, rooms[ri].id) = LaunchResult(p, rooms[ri])

\* No step that changes anything is a launch_room call by a member that
\* returns NotHost or RoomNotFull.
LaunchFailureKeepsRoom ==
    \/ UNCHANGED server_data
    \/ \A ri \in 1 .. Len(rooms) :
          \A p \in RoomPlayerIds(rooms[ri]) :
              ~ (LaunchResult(p, rooms[ri]) # "Ok" /\ launch_room(p, rooms[ri].id))

\* C9: launch_room(p, r) called by a member p of open room r succeeds iff p
\* is players[0] and len(players) = settings.player_count; otherwise it
\* fails with NotHost when p is not at position 0 and with RoomNotFull when p
\* is the host of a room that is not full, and the room is left unchanged.
C9_LaunchIffHostAndFull == []LaunchDecided /\ [][LaunchFailureKeepsRoom]_vars

\* C9: a launch has succeeded, and an open room that is not full has a host
\* and another member.
C9_Witness ==
    /\ games # << >>
    /\ \E ri \in 1 .. Len(rooms) :
          /\ Len(rooms[ri].players) = 2
          /\ rooms[ri].settings.player_count = 3

\* The effect of a successful launch_room(p, r): one game more, the last,
\* with a fresh id, the room's settings, the room's players in room order
\* with score 0, an empty current round, no history and status Running; the
\* room gone and the other rooms kept in order; and launch_room on r now
\* returning UnknownRoom to every registered player.
LaunchEffect ==
    \/ UNCHANGED server_data
    \/ \A p \in PlayerIdArgs, r \in RoomIdArgs :
          (launch_room_check(p, r) = "Ok" /\ launch_room(p, r)) =>
              LET room_data == CHOOSE rd \in Range(rooms) : rd.id = r
                  game_data == games'[Len(games')]
              IN /\ Len(games') = Len(games) + 1
                 /\ \A gi \in 1 .. Len(games) : games'[gi] = games[gi]
                 /\ \A gi \in 1 .. Len(games) : games[gi].id # game_data.id
                 /\ game_data.settings = room_data.settings
                 /\ Len(game_data.players) = Len(room_data.players)
                 /\ \A i \in 1 .. Len(room_data.players) :
                       game_data.players[i] = << room_data.players[i], 0 >>
                 /\ game_data.current_round = [inputs |-> << >>, result |-> None]
                 /\ game_data.round_history = << >>
                 /\ game_data.status = "Running"
                 /\ rooms' = SelectSeq(rooms, LAMBDA rd : rd.id # r)
                 /\ Len(rooms') = Len(rooms) - 1
                 /\ UNCHANGED << players, next_player_id, next_room_id >>
                 /\ \A q \in PlayerIdArgs :
                       (\E i \in 1 .. Len(players) : players[i].id = q)
                          => (launch_room_check(q, r))' = "UnknownRoom"

\* C10: a successful launch_room adds, in one step, exactly one game (fresh
\* id, the room's settings, the room's players in room order each with score
\* 0, empty current round, empty history, status Running) and deletes the
\* room, so that a second launch_room on the same room id fails with
\* UnknownRoom and creates no second game.
C10_LaunchConsumesRoom == [][LaunchEffect]_vars

\* C10: the only room created was full with three players and has been
\* launched; launching it again returns UnknownRoom.
C10_Witness ==
    /\ next_room_id = 1
    /\ rooms = << >>
    /\ Len(games) = 1
    /\ Len(games[1].players) = 3
    /\ launch_room_check(games[1].players[1][1].id, 0) = "UnknownRoom"

\* The tasks inside the critical section: between the return of
\* lock().await and the drop of the guard.
InCriticalSection ==
    {t \in Tasks : pc[t] \in {"func", "drop", "println_players", "println_rooms",
                               "println_games", "end_of_block"}}

\* At most one task is inside the critical section, and it owns the only guard.
OneAtATime ==
    /\ Cardinality(InCriticalSection) <= 1
    /\ guards = InCriticalSection

\* Every change of the aggregate is one whole operation, made in one step by
\* the one task that holds the lock, while no other task moves.
OperationsAreAtomic ==
    \/ UNCHANGED server_data
    \/ \E t \in Handlers :
          /\ guards = {t}
          /\ guards' = {t}
          /\ \A u \in Tasks \ {t} : pc'[u] = pc[u]
          /\ Operation

\* C6: with several concurrent callers, at most one operation (mutating or
\* reading) executes against the shared aggregate at any instant, so each
\* operation takes effect atomically and every outcome is that of some
\* sequential order of the operations.
C6_OneOperationAtATime == []OneAtATime /\ [][OperationsAreAtomic]_vars

\* C6: a handler has changed the aggregate (the room was launched) and still
\* holds the lock, while the other tasks wait for it.
C6_Witness ==
    /\ games # << >>
    /\ \E t \in Handlers : pc[t] = "drop" /\ guards = {t}
    /\ Len(waiters) = 2

\* The statements that write to standard output, answer on the network or
\* sleep.
IOStatements == {"println_players", "println_rooms", "println_games", "sleep", "respond"}

\* C7: no holder of the aggregate's lock performs I/O, a network call or a
\* sleep while it holds the lock, be it a request handler or the log-feed
\* task.
C7_NoIOUnderLock == \A t \in guards : pc[t] \notin IOStatements

\* The holder of the lock never asks for it again, a task that has ended its
\* operation or its log-feed iteration holds no guard, and a task waits only
\* while another holds the lock.
LockDiscipline ==
    /\ \A t \in guards : t \notin Range(waiters) /\ pc[t] # "waiting"
    /\ \A t \in Tasks : pc[t] \in {"respond", "idle", "sleep", "loop"} => t \notin guards
    /\ waiters # << >> => guards # {}
    /\ \A i, j \in 1 .. Len(waiters) : waiters[i] = waiters[j] => i = j

\* A task that starts to wait goes behind those that wait already, and the
\* lock goes to a waiting task only when that task has waited longest.
ArrivalOrder ==
    \A t \in Tasks :
        /\ (pc[t] # "waiting" /\ pc'[t] = "waiting") => waiters' = Append(waiters, t)
        /\ (pc[t] = "waiting" /\ pc'[t] # "waiting") =>
              /\ t = Head(waiters)
              /\ waiters' = Tail(waiters)
              /\ guards' = {t}

\* A task that waits for the lock gets it and executes: a handler runs its
\* operation to the end, the log-feed task reaches its first println.
WaitersAreServed ==
    \A t \in Tasks :
        (pc[t] = "waiting") ~> (pc[t] = IF t = LogFeed THEN "println_players" ELSE "drop")

\* C8: the lock protocol cannot deadlock and every caller waiting for the
\* aggregate eventually executes its operation: the lock is never re-acquired
\* by its holder, is released at the end of every operation and of every
\* log-feed iteration, and waiting callers are served in arrival order.
C8_WaitersServedInOrder ==
    /\ []LockDiscipline
    /\ [][ArrivalOrder]_vars
    /\ WaitersAreServed

\* C8: two tasks wait for the lock, the log-feed task behind a handler, while
\* a third holds it.
C8_Witness ==
    /\ Len(waiters) = 2
    /\ waiters[2] = LogFeed
    /\ \E t \in Handlers : guards = {t}

\* The registered player ids.
RegisteredIds == {players[i].id : i \in 1 .. Len(players)}

\* join_room succeeds exactly for a registered player who is not a member of
\* an open room with a free place; a member gets AlreadyInRoom, full room or
\* not, and a registered non-member of a full room gets RoomFull.
JoinDecided ==
    \A p \in PlayerIdArgs, r \in RoomIdArgs :
        LET open == {rd \in Range(rooms) : rd.id = r} IN
        /\ join_room_check(p, r) = "Ok" <=>
              /\ p \in RegisteredIds
              /\ \E rd \in open :
                    /\ p \notin RoomPlayerIds(rd)
                    /\ Len(rd.players) < rd.settings.player_count
        /\ \A rd \in open :
              /\ p \in RoomPlayerIds(rd) => join_room_check(p, r) = "AlreadyInRoom"
              /\ (/\ p \in RegisteredIds \ RoomPlayerIds(rd)
                  /\ Len(rd.players) >= rd.settings.player_count)
                    => join_room_check(p, r) = "RoomFull"

\* A successful join_room(p, r), which by JoinDecided is one of a registered
\* player outside the open room r, puts p behind the members of r, who keep
\* their places, and touches no other room.
JoinAppends ==
    \/ rooms' = rooms
    \/ \A rd \in Range(rooms) : \A p \in RegisteredIds \ RoomPlayerIds(rd) :
          (join_room_check(p, rd.id) = "Ok" /\ join_room(p, rd.id)) =>
              /\ Len(rooms') = Len(rooms)
              /\ \A ri \in 1 .. Len(rooms) :
                    IF rooms[ri].id # rd.id
                    THEN rooms'[ri] = rooms[ri]
                    ELSE /\ Len(rooms'[ri].players) = Len(rd.players) + 1
                         /\ rooms'[ri].players[Len(rooms'[ri].players)].id = p
                         /\ \A i \in 1 .. Len(rd.players) :
                               rooms'[ri].players[i] = rd.players[i]
                         /\ rooms'[ri].settings = rd.settings

\* C11: join_room(p, r) succeeds exactly when p is registered, r is an open
\* room, p is not already a member of r and len(players) <
\* settings.player_count; on success p is appended as the last member and the
\* other members keep their order; a member joining again fails with
\* AlreadyInRoom (also when the room is full) and a non-member joining a full
\* room fails with RoomFull.
C11_JoinRoom == []JoinDecided /\ [][JoinAppends]_vars

\* C11: a room is full after a join, one of its members is not its host, and
\* a registered player is outside: AlreadyInRoom and RoomFull both occur.
C11_Witness ==
    \E rd \in Range(rooms) :
        /\ Len(rd.players) = 2
        /\ rd.settings.player_count = 2
        /\ join_room_check(rd.players[2].id, rd.id) = "AlreadyInRoom"
        /\ \E p \in RegisteredIds : join_room_check(p, rd.id) = "RoomFull"

\* The number of successful join_room calls made on a room, where nobody
\* leaves: every member but the creator has joined once.
Joins(room_data) == Len(room_data.players) - 1

\* The registered players who are not members of a room.
Outsiders(room_data) == RegisteredIds \ RoomPlayerIds(room_data)

\* C12 as stated: a room created with player_count = n still takes a distinct
\* player while fewer than n join_room calls have succeeded on it, the n-th
\* successful call fills it, and the attempt after that one fails with
\* RoomFull.
C12_Original ==
    \A rd \in Range(rooms) : \A p \in Outsiders(rd) :
        /\ Joins(rd) < rd.settings.player_count => join_room_check(p, rd.id) = "Ok"
        /\ Joins(rd) = rd.settings.player_count => join_room_check(p, rd.id) = "RoomFull"

\* C12: the creator is the first member of a room created with
\* settings.player_count = n, so the room is full when n - 1 join_room calls
\* have succeeded on it (when it is created, for n = 1 and for n = 0): a
\* distinct player's attempt succeeds while fewer than n - 1 have succeeded,
\* and after that every attempt by a distinct player fails with RoomFull and
\* no further join succeeds.
C12_RoomFillsWithCreator ==
    \A rd \in Range(rooms) :
        LET n == rd.settings.player_count IN
        /\ Joins(rd) <= (IF n >= 1 THEN n - 1 ELSE 0)
        /\ \A p \in Outsiders(rd) :
              /\ Joins(rd) < n - 1 => join_room_check(p, rd.id) = "Ok"
              /\ Joins(rd) >= n - 1 => join_room_check(p, rd.id) = "RoomFull"

\* C12: a room for two players has taken one join, and the attempt of a third
\* player fails with RoomFull.
C12_Witness ==
    \E rd \in Range(rooms) :
        /\ rd.settings.player_count = 2
        /\ Joins(rd) = 1
        /\ \E p \in Outsiders(rd) : join_room_check(p, rd.id) = "RoomFull"

\* From one state to the next the members of a room who stay keep their
\* relative order and stay in front of those who arrive.
JoinOrderKept ==
    \A rd \in Range(rooms) : \A next_rd \in Range(rooms') :
        rd.id = next_rd.id =>
            LET stay == SelectSeq(rd.players, LAMBDA x : x \in Range(next_rd.players))
            IN /\ Len(stay) <= Len(next_rd.players)
               /\ SubSeq(next_rd.players, 1, Len(stay)) = stay

\* A room that appears has one member, its host, and the step that made it
\* is a create_room call of that player.
CreatorIsHost ==
    \A next_rd \in Range(rooms') :
        (\A rd \in Range(rooms) : rd.id # next_rd.id) =>
            /\ Len(next_rd.players) = 1
            /\ \E n \in RoomNames, s \in SettingsArgs :
                  create_room(next_rd.players[1].id, n, s)

\* When the host leaves a room that still has members, the members behind
\* him move up one place: the one who joined first is the host.
HostSucceeded ==
    \A rd \in Range(rooms) :
        (Len(rd.players) >= 2 /\ leave_room(rd.players[1].id, rd.id)) =>
            \E next_rd \in Range(rooms') :
                /\ next_rd.id = rd.id
                /\ next_rd.players = Tail(rd.players)
                /\ next_rd.players[1] = rd.players[2]

\* Every step keeps the join order, makes the creator host of a new room and
\* makes the next member host when the host leaves.
RoomOrderStep ==
    \/ rooms' = rooms
    \/ JoinOrderKept /\ CreatorIsHost /\ HostSucceeded

\* C13: a room's player sequence is always the join order of its current
\* members, so the host (players[0]) is the creator right after create_room
\* and, when the host leaves a room that still has members, the
\* earliest-joined remaining member becomes host while the relative order of
\* the remaining members is unchanged.
C13_JoinOrder == [][RoomOrderStep]_vars

\* C13: a room for three players holds two members and the third registered
\* player is outside, as after the host of the full room has left.
C13_Witness ==
    \E rd \in Range(rooms) :
        /\ rd.settings.player_count = 3
        /\ Len(rd.players) = 2
        /\ Cardinality(Outsiders(rd)) = 1

\* The ids of the open rooms.
RoomIds == {rd.id : rd \in Range(rooms)}

\* Every room id in use has been issued, and on an issued id that is the id
\* of no room get_room_data, leave_room and launch_room return UnknownRoom to
\* every registered player.
DeletedRoomIsUnknown ==
    /\ \A r \in RoomIds : 0 <= r /\ r < next_room_id
    /\ \A r \in RoomIdArgs \ RoomIds : \A p \in RegisteredIds :
          /\ get_room_data_check(p, r) = "UnknownRoom"
          /\ leave_room_check(p, r) = "UnknownRoom"
          /\ launch_room_check(p, r) = "UnknownRoom"

\* leave_room by the only member of a room deletes the room; an issued id
\* that is the id of no room stays so, because a room that appears takes the
\* id next_room_id, which is then raised.
DeletedRoomStaysDeleted ==
    \/ rooms' = rooms
    \/ /\ \A rd \in Range(rooms) :
             (Len(rd.players) = 1 /\ leave_room(rd.players[1].id, rd.id)) =>
                 \A next_rd \in Range(rooms') : next_rd.id # rd.id
       /\ \A next_rd \in Range(rooms') :
             next_rd.id \notin RoomIds =>
                 /\ next_rd.id = next_room_id
                 /\ next_room_id' = next_room_id + 1

\* C14: when leave_room removes the last remaining member of a room, the room
\* is deleted, and every later get_room_data, leave_room and launch_room call
\* by a registered player on that room id fails with UnknownRoom, forever
\* (the id is never given to another room).
C14_LastLeaveDeletesRoom == []DeletedRoomIsUnknown /\ [][DeletedRoomStaysDeleted]_vars

\* C14: a room was created and another after it, no game was launched and
\* only the second room is open: the first was left by its last member.
C14_Witness ==
    /\ next_room_id = 2
    /\ games = << >>
    /\ RoomIds = {1}
    /\ \E p \in RegisteredIds : leave_room_check(p, 0) = "UnknownRoom"

\* A successful play_round(p, g, a) resolves the round exactly when p was the
\* last player of g without an input: then round_history gets one round more
\* behind those it had and a new round starts; otherwise round_history is as
\* it was and p has an input.
RoundResolution ==
    \/ UNCHANGED server_data
    \/ \A gi \in 1 .. Len(games) :
          LET game_data == games[gi] IN
          \A p \in GamePlayerIds(game_data), a \in ActionKind :
              (play_round_check(p, game_data.id) = "Ok" /\ play_round(p, game_data.id, a)) =>
                  LET next_game_data == games'[gi]
                      n == Len(game_data.round_history)
                  IN IF GamePlayerIds(game_data)
                           \subseteq DOMAIN game_data.current_round.inputs \cup {p}
                     THEN /\ Len(next_game_data.round_history) = n + 1
                          /\ SubSeq(next_game_data.round_history, 1, n)
                                = game_data.round_history
                          /\ DOMAIN next_game_data.current_round.inputs = {}
                     ELSE /\ next_game_data.round_history = game_data.round_history
                          /\ DOMAIN next_game_data.current_round.inputs
                                = DOMAIN game_data.current_round.inputs \cup {p}
                          /\ next_game_data.status = "Running"

\* C15: a round is resolved exactly in the play_round call after which every
\* player of the game has an entry in current_round.inputs, and never
\* earlier: round_history grows by exactly one in that call, and it is
\* unchanged by every play_round call that leaves some player of the game
\* without an input.
C15_ResolvedWhenAllPlayed == [][RoundResolution]_vars

\* C15: a game of three has resolved one round and collects the next, two of
\* its players having played.
C15_Witness ==
    \E gi \in 1 .. Len(games) :
        /\ Len(games[gi].players) = 3
        /\ Len(games[gi].round_history) = 1
        /\ Cardinality(DOMAIN games[gi].current_round.inputs) = 2

\* The calls the claim is about: the Running games, each with a player who
\* has an input in the current round while some other player has none.
Resubmissions ==
    {<< gi, p >> \in (1 .. Len(games)) \X PlayerIdArgs :
        /\ games[gi].status = "Running"
        /\ p \in DOMAIN games[gi].current_round.inputs
        /\ ~ (GamePlayerIds(games[gi]) \subseteq DOMAIN games[gi].current_round.inputs)}

\* The game after p's input in the current round has been replaced by a, and
\* nothing else.
Resubmitted(game_data, p, a) ==
    [game_data EXCEPT !.current_round.inputs = [@ EXCEPT ![p] = a]]

\* What a resubmission records is the map of inputs with the latest action
\* under the player's key, the other entries as they were.
LatestActionRecorded ==
    \A << gi, p >> \in Resubmissions : \A a \in ActionKind :
        /\ play_round_check(p, games[gi].id) = "Ok"
        /\ insert_input(games[gi].current_round.inputs, p, a)
              = Resubmitted(games[gi], p, a).current_round.inputs
        /\ ~ all_played(games[gi], insert_input(games[gi].current_round.inputs, p, a))

\* A resubmission changes the game into the one with that entry replaced:
\* scores, round_history, status and the other inputs are as they were, and
\* so is every other game.
ResubmissionStep ==
    \/ UNCHANGED server_data
    \/ \A << gi, p >> \in Resubmissions : \A a \in ActionKind :
          play_round(p, games[gi].id, a) =>
              games' = [games EXCEPT ![gi] = Resubmitted(games[gi], p, a)]

\* C16: in a Running game, when a player who has already submitted calls
\* play_round again while some other player has not yet submitted, only that
\* player's entry in current_round.inputs is replaced by the latest action:
\* no round is resolved, and the scores, round_history, status and other
\* players' inputs are unchanged.
C16_ResubmissionReplaces == []LatestActionRecorded /\ [][ResubmissionStep]_vars

\* C16: in the first round of a game of three, two players have played,
\* different actions, and the third has not.
C16_Witness ==
    \E gi \in 1 .. Len(games) :
        LET inputs == games[gi].current_round.inputs IN
        /\ Len(games[gi].players) = 3
        /\ games[gi].round_history = << >>
        /\ Cardinality(DOMAIN inputs) = 2
        /\ \E p, q \in DOMAIN inputs : inputs[p] = "Paper" /\ inputs[q] = "Rock"

\* Rock beats Scissors, Scissors beats Paper, Paper beats Rock.
Beats == {<< "Rock", "Scissors" >>, << "Scissors", "Paper" >>, << "Paper", "Rock" >>}

\* The result of the pair of p and q, in whichever order the two come.
PairResult(p, q, inputs) ==
    IF inputs[p] = inputs[q] THEN Draw
    ELSE IF << inputs[p], inputs[q] >> \in Beats THEN Winner(p)
    ELSE Winner(q)

\* The pairs of different players with an input in a round.
Pairs(inputs) == {pair \in SUBSET DOMAIN inputs : Cardinality(pair) = 2}

\* The result of a pair, as a set of two players.
ResultOfPair(pair, inputs) ==
    LET p == CHOOSE x \in pair : TRUE
        q == CHOOSE x \in pair : x # p
    IN PairResult(p, q, inputs)

\* The match gives the result of the beats relation for every two players
\* and actions, the same whichever player comes first; and in every round of
\* every history each result value stands once for each pair it is the
\* result of.
RoundsFollowBeats ==
    /\ \A p, q \in PlayerIdArgs, a, b \in ActionKind :
          p # q =>
              LET inputs == (p :> a) @@ (q :> b)
              IN /\ round_result(p, a, q, b) = PairResult(p, q, inputs)
                 /\ round_result(q, b, p, a) = PairResult(p, q, inputs)
                 /\ (round_result(p, a, q, b) = Draw) <=> (a = b)
    /\ \A gi \in 1 .. Len(games) : \A ri \in 1 .. Len(games[gi].round_history) :
          LET round == games[gi].round_history[ri]
              results == round.result[1]
          IN \A v \in {Draw} \cup {Winner(p) : p \in DOMAIN round.inputs} :
                Cardinality({k \in 1 .. Len(results) : results[k] = v})
                   = Cardinality({pair \in Pairs(round.inputs) :
                                     ResultOfPair(pair, round.inputs) = v})

\* C17: for every pair of players in a resolving round and every combination
\* of their two actions, the pair's result is Draw iff the two actions are
\* equal, and otherwise Winner(id) of the player whose action beats the other
\* under Rock beats Scissors, Scissors beats Paper, Paper beats Rock,
\* whichever of the two players is enumerated first.
C17_RockPaperScissors == RoundsFollowBeats

\* C17: Paper against Scissors, resolved: the player of Scissors has won.
C17_Witness ==
    \E gi \in 1 .. Len(games) : \E ri \in 1 .. Len(games[gi].round_history) :
        LET round == games[gi].round_history[ri] IN
        \E p, q \in DOMAIN round.inputs :
            /\ DOMAIN round.inputs = {p, q}
            /\ round.inputs[p] = "Paper"
            /\ round.inputs[q] = "Scissors"
            /\ round.result = Some(<< Winner(q) >>)

\* The number of Winner(p) entries in the results of one round.
WinsInRound(round, p) ==
    Cardinality({k \in 1 .. Len(round.result[1]) : round.result[1][k] = Winner(p)})

\* The number of Winner(p) entries over all the rounds of a history.
RECURSIVE Wins(_, _)
Wins(round_history, p) ==
    IF round_history = << >> THEN 0
    ELSE WinsInRound(Head(round_history), p) + Wins(Tail(round_history), p)

\* The number of decided pairs over all the rounds of a history.
RECURSIVE Decided(_)
Decided(round_history) ==
    IF round_history = << >> THEN 0
    ELSE Cardinality({k \in 1 .. Len(Head(round_history).result[1]) :
                         Head(round_history).result[1][k] # Draw})
         + Decided(Tail(round_history))

\* The sum of the scores of a game.
RECURSIVE TotalScore(_)
TotalScore(game_players) ==
    IF game_players = << >> THEN 0
    ELSE Head(game_players)[2] + TotalScore(Tail(game_players))

\* C18: in every reachable state each player's cumulative score in a game
\* equals the number of Winner(that player) entries over all rounds of the
\* game's round_history: each decided pair adds exactly 1 to its winner and
\* nothing to anyone else, a Draw adds nothing, and with 3 or more players
\* one player can gain more than 1 point in a single round.
C18_ScoreCountsWins ==
    \A gi \in 1 .. Len(games) :
        /\ \A i \in 1 .. Len(games[gi].players) :
              games[gi].players[i][2]
                 = Wins(games[gi].round_history, games[gi].players[i][1].id)
        /\ TotalScore(games[gi].players) = Decided(games[gi].round_history)

\* C18: after the first round of a game of three, one player has 2 points.
C18_Witness ==
    \E gi \in 1 .. Len(games) :
        /\ Len(games[gi].players) = 3
        /\ Len(games[gi].round_history) = 1
        /\ \E i \in 1 .. 3 : games[gi].players[i][2] = 2

\* The games that end by TotalRounds(n), as indices of games.
TotalRoundsGames ==
    {gi \in 1 .. Len(games) : games[gi].settings.end_condition.tag = "TotalRounds"}

\* A TotalRounds(n) game with n >= 1 is Ended iff its history has n rounds,
\* and has no more than n; with n = 0 no call makes the history that long
\* and the game is Running.
EndedAtTotalRounds ==
    \A gi \in TotalRoundsGames :
        LET n == games[gi].settings.end_condition.n IN
        IF n >= 1
        THEN /\ games[gi].status = "Ended" <=> Len(games[gi].round_history) = n
             /\ Len(games[gi].round_history) <= n
        ELSE games[gi].status = "Running"

\* The step that ends a TotalRounds(n) game is a play_round call of one of
\* its players that takes the history from n - 1 rounds to n.
EndsInTheNthRound ==
    \/ UNCHANGED server_data
    \/ \A gi \in TotalRoundsGames :
          (games[gi].status = "Running" /\ games'[gi].status = "Ended") =>
              /\ Len(games[gi].round_history) = games[gi].settings.end_condition.n - 1
              /\ Len(games'[gi].round_history) = games[gi].settings.end_condition.n
              /\ \E p \in GamePlayerIds(games[gi]), a \in ActionKind :
                    play_round(p, games[gi].id, a)

\* C19: in a TotalRounds(n) game the status becomes Ended exactly in the
\* play_round call that makes len(round_history) equal n; for n >= 1 the game
\* is Ended iff len(round_history) == n, and round_history never grows beyond
\* n.
C19_TotalRounds == []EndedAtTotalRounds /\ [][EndsInTheNthRound]_vars

\* C19: a game of TotalRounds(2) has Ended with its second round.
C19_Witness ==
    \E gi \in TotalRoundsGames :
        /\ games[gi].settings.end_condition.n = 2
        /\ games[gi].status = "Ended"
        /\ Len(games[gi].round_history) = 2

\* C20: every round in a game's round_history holds an action for exactly
\* every player of the game and a present result with exactly one entry per
\* unordered pair of distinct players (n(n-1)/2 entries for n players), while
\* current_round.result is absent in every reachable state.
C20_RoundsAreComplete ==
    \A gi \in 1 .. Len(games) :
        LET game_data == games[gi]
            n == Len(game_data.players)
        IN /\ game_data.current_round.result = None
           /\ DOMAIN game_data.current_round.inputs \subseteq GamePlayerIds(game_data)
           /\ \A ri \in 1 .. Len(game_data.round_history) :
                 LET round == game_data.round_history[ri] IN
                 /\ DOMAIN round.inputs = GamePlayerIds(game_data)
                 /\ \A p \in DOMAIN round.inputs : round.inputs[p] \in ActionKind
                 /\ round.result # None
                 /\ Len(round.result[1]) = (n * (n - 1)) \div 2
                 /\ Len(round.result[1]) = Cardinality(Pairs(round.inputs))
                 /\ \A k \in 1 .. Len(round.result[1]) :
                       round.result[1][k] \in
                          {Draw} \cup {Winner(p) : p \in GamePlayerIds(game_data)}

\* C20: a game of three has a round with three results in its history and
\* collects the next round, whose result is absent.
C20_Witness ==
    \E gi \in 1 .. Len(games) :
        /\ Len(games[gi].players) = 3
        /\ Len(games[gi].round_history) = 1
        /\ Len(games[gi].round_history[1].result[1]) = 3
        /\ Cardinality(DOMAIN games[gi].current_round.inputs) = 1
        /\ games[gi].current_round.result = None

\* No two registered players have the same name, and
\* create_player_with_name returns NameTaken exactly for the names, letter for
\* letter, of the registered players.
NamesAreUnique ==
    /\ \A i, j \in 1 .. Len(players) : players[i].name = players[j].name => i = j
    /\ \A name \in RegistryNames :
          create_player_with_name_check(name) = "NameTaken"
             <=> name \in {players[i].name : i \in 1 .. Len(players)}
    /\ \A name \in RegistryNames :
          create_player_with_name_check(name) \in {"NameTaken", "Ok"}

\* A create_player_with_name call that does not fail adds one player, the
\* last, with the name given, and keeps the others.
RegistrationAddsOne ==
    \/ UNCHANGED server_data
    \/ \A name \in RegistryNames :
          create_player_with_name(name) =>
              /\ create_player_with_name_check(name) = "Ok"
              /\ Len(players') = Len(players) + 1
              /\ SubSeq(players', 1, Len(players)) = players
              /\ players'[Len(players')].name = name

\* C21: after any sequence of operations no two registered players have the
\* same name: create_player_with_name(name) fails with NameTaken exactly when
\* a registered player already has that exact (case-sensitive) name, and
\* otherwise adds exactly one new player with that name.
C21_UniqueNames == []NamesAreUnique /\ [][RegistrationAddsOne]_vars

\* C21: Alice and alice are both registered, and a second Alice is refused.
C21_Witness ==
    /\ {"Alice", "alice"} \subseteq {players[i].name : i \in 1 .. Len(players)}
    /\ create_player_with_name_check("Alice") = "NameTaken"

\* The ids in a sequence of players, of rooms or of games.
IdsOf(seq) == {seq[i].id : i \in 1 .. Len(seq)}

\* The ids of a sequence are pairwise different.
DistinctIds(seq) == \A i, j \in 1 .. Len(seq) : seq[i].id = seq[j].id => i = j

\* The three counters of a new server are 0.
CountersStartAtZero == next_player_id = 0 /\ next_room_id = 0 /\ next_game_id = 0

\* Every id in use was issued by the counter of its kind: the players and the
\* games, which are never removed, have the ids 0, 1, ... in the order of
\* their creation, and the ids of the rooms are distinct and below the
\* counter of the rooms.
IdsWereIssued ==
    /\ \A i \in 1 .. Len(players) : players[i].id = i - 1
    /\ Len(players) = next_player_id
    /\ \A i \in 1 .. Len(games) : games[i].id = i - 1
    /\ Len(games) = next_game_id
    /\ DistinctIds(rooms)
    /\ IdsOf(rooms) \subseteq 0 .. next_room_id - 1

\* A step issues at most one id: the counter of one kind grows by one
\* together with the creation of the player, room or game that has the
\* counter's old value for id, and no counter changes in any other way.
IssuesOneId ==
    \/ /\ UNCHANGED << next_player_id, next_room_id, next_game_id >>
       /\ players' = players
       /\ games' = games
       /\ IdsOf(rooms') \subseteq IdsOf(rooms)
    \/ /\ next_player_id' = next_player_id + 1
       /\ players' = Append(players, players'[Len(players')])
       /\ players'[Len(players')].id = next_player_id
       /\ UNCHANGED << next_room_id, next_game_id, rooms, games >>
    \/ /\ next_room_id' = next_room_id + 1
       /\ rooms' = Append(rooms, rooms'[Len(rooms')])
       /\ rooms'[Len(rooms')].id = next_room_id
       /\ UNCHANGED << next_player_id, next_game_id, players, games >>
    \/ /\ next_game_id' = next_game_id + 1
       /\ games' = Append(games, games'[Len(games')])
       /\ games'[Len(games')].id = next_game_id
       /\ IdsOf(rooms') \subseteq IdsOf(rooms)
       /\ UNCHANGED << next_player_id, next_room_id, players >>

\* A creation that fails leaves the three counters as they were.
FailedCreationKeepsCounters ==
    \/ UNCHANGED << next_player_id, next_room_id, next_game_id >>
    \/ /\ \A name \in Names :
             create_player_with_name_check(name) # "Ok" =>
                 ~ create_player_with_name(name)
       /\ \A player_id \in PlayerIdArgs :
             /\ create_room_check(player_id) # "Ok" =>
                   \A room_name \in RoomNames, settings \in SettingsArgs :
                       ~ create_room(player_id, room_name, settings)
             /\ \A room_id \in RoomIdArgs :
                   launch_room_check(player_id, room_id) # "Ok" =>
                       ~ launch_room(player_id, room_id)

\* C22: player ids, room ids and game ids are each issued by an independent
\* counter that starts at 0 and increases by 1 per successful creation; within
\* a namespace no id is ever issued twice, including the ids of rooms that
\* were deleted or launched, and a failed creation consumes no id.
C22_IdCounters ==
    /\ CountersStartAtZero
    /\ []IdsWereIssued
    /\ [][IssuesOneId /\ FailedCreationKeepsCounters]_vars

\* C22: a first room was deleted and a second one launched: the game has the
\* id 0 although its room had the id 1, and both room ids stay used.
C22_Witness ==
    /\ next_room_id = 2
    /\ rooms = << >>
    /\ Len(games) = 1
    /\ games[1].id = 0
    /\ next_game_id = 1

\* The players of a game, in game order, without their scores.
GamePlayers(game_data) ==
    [k \in 1 .. Len(game_data.players) |-> game_data.players[k][1]]

\* The scores of a game, in game order.
GameScores(game_data) ==
    [k \in 1 .. Len(game_data.players) |-> game_data.players[k][2]]

\* No step removes a game or changes the id, the settings or the player
\* sequence of one, and the scores of a game change only in a step that
\* adds a round to its history.
GameIdentityKept ==
    \/ games' = games
    \/ /\ Len(games') >= Len(games)
       /\ \A i \in 1 .. Len(games) :
             /\ games'[i].id = games[i].id
             /\ games'[i].settings = games[i].settings
             /\ GamePlayers(games'[i]) = GamePlayers(games[i])
             /\ GameScores(games'[i]) # GameScores(games[i]) =>
                   /\ Len(games'[i].round_history) = Len(games[i].round_history) + 1
                   /\ games'[i].current_round = RoundDataDefault

\* A play_round call on game_id leaves the players, the rooms, the counters
\* and every game but game_id as they were.
PlayRoundFrame ==
    \/ UNCHANGED server_data
    \/ \A p \in PlayerIdArgs, g \in GameIdArgs, a \in ActionKind :
          play_round(p, g, a) =>
              /\ UNCHANGED << players, rooms, next_player_id, next_game_id, next_room_id >>
              /\ Len(games') = Len(games)
              /\ \A i \in 1 .. Len(games) : games[i].id # g => games'[i] = games[i]

\* C23: play_round on game g changes only g's current_round, round_history,
\* scores and status: g's id, settings and player sequence (ids and order)
\* never change after creation, scores change only in a call that resolves a
\* round, and every other game, every room and every player is left unchanged.
C23_PlayRoundFrame == [][GameIdentityKept /\ PlayRoundFrame]_vars

\* C23: of two games the second has resolved a round with a winner and the
\* first is as it was launched.
C23_Witness ==
    /\ Len(games) = 2
    /\ games[1].round_history = << >>
    /\ games[1].current_round = RoundDataDefault
    /\ Len(games[2].round_history) = 1
    /\ \E k \in 1 .. Len(games[2].players) : games[2].players[k][2] = 1
    /\ GamePlayers(games[2]) = Duo

\* get_room_data succeeds exactly for a registered member of the room, and
\* get_game_data exactly for a registered player of the game; a registered
\* player outside the room or the game gets NotInRoom or NotInGame.
ReadsDecided ==
    /\ \A p \in PlayerIdArgs, r \in RoomIdArgs :
          LET found == {rd \in Range(rooms) : rd.id = r} IN
          /\ get_room_data_check(p, r) = "Ok" <=>
                p \in RegisteredIds /\ \E rd \in found : p \in RoomPlayerIds(rd)
          /\ (p \in RegisteredIds /\ \E rd \in found : p \notin RoomPlayerIds(rd))
                => get_room_data_check(p, r) = "NotInRoom"
    /\ \A p \in PlayerIdArgs, g \in GameIdArgs :
          LET found == {gd \in Range(games) : gd.id = g} IN
          /\ get_game_data_check(p, g) = "Ok" <=>
                p \in RegisteredIds /\ \E gd \in found : p \in GamePlayerIds(gd)
          /\ (p \in RegisteredIds /\ \E gd \in found : p \notin GamePlayerIds(gd))
                => get_game_data_check(p, g) = "NotInGame"

\* The three reads leave the aggregate as it was.
ReadsChangeNothing ==
    \/ UNCHANGED server_data
    \/ /\ ~ get_rooms_list
       /\ \A p \in PlayerIdArgs :
             /\ \A r \in RoomIdArgs : ~ get_room_data(p, r)
             /\ \A g \in GameIdArgs : ~ get_game_data(p, g)

\* C24: get_room_data succeeds only for a registered player who is currently
\* a member of the room and get_game_data only for a registered player of the
\* game (a registered non-member gets NotInRoom / NotInGame, a player who left
\* the room included); get_room_data, get_game_data and get_rooms_list never
\* change any state.
C24_Reads == []ReadsDecided /\ [][ReadsChangeNothing]_vars

\* C24: Alice has left the room she opened, where Bob remains, and she is not
\* a player of the game: both reads refuse her, and the room read serves Bob.
C24_Witness ==
    /\ \E i \in 1 .. Len(rooms) :
          /\ rooms[i].id = 1
          /\ rooms[i].players = << Registered[2] >>
    /\ get_room_data_check(0, 1) = "NotInRoom"
    /\ get_room_data_check(1, 1) = "Ok"
    /\ get_game_data_check(0, 0) = "NotInGame"
    /\ get_game_data_check(1, 0) = "Ok"

\* The positions, in a game's player sequence, of the players without an
\* entry in current_round.inputs.
PendingPositions(game_data) ==
    {i \in 1 .. Len(game_data.players) :
        game_data.players[i][1].id \notin DOMAIN game_data.current_round.inputs}

\* The names of all the players of a game, in game order.
AllPlayersView(game_data) ==
    [i \in 1 .. Len(game_data.players) |-> [name |-> game_data.players[i][1].name]]

\* waiting_for_players lists the pending players and nobody else, in game
\* order: the pending player at position i of the game, with r pending
\* players at or before i, is the r-th of the list.  Nobody who has submitted
\* is in it.
WaitingIsPending ==
    \A gi \in 1 .. Len(games) :
        LET game_data == games[gi]
            pending == PendingPositions(game_data)
            waiting == waiting_for_players(game_data)
        IN /\ Len(waiting) = Cardinality(pending)
           /\ \A i \in pending :
                 waiting[Cardinality({j \in pending : j <= i})]
                    = [name |-> game_data.players[i][1].name]
           /\ \A i \in 1 .. Len(game_data.players) :
                 i \notin pending =>
                    \A k \in 1 .. Len(waiting) :
                        waiting[k].name # game_data.players[i][1].name

\* After a launch the new game, and after a resolution the game of the
\* resolved round, wait for all their players.
WaitingIsFullAtRoundStart ==
    \/ games' = games
    \/ \A gi \in 1 .. Len(games') :
          (\/ gi > Len(games)
           \/ Len(games'[gi].round_history) > Len(games[gi].round_history))
              => waiting_for_players(games'[gi]) = AllPlayersView(games'[gi])

\* C25: the game view's waiting_for_players is exactly the game's players, in
\* game order, that have no entry in current_round.inputs of the in-progress
\* round; it is the full player list right after launch and right after each
\* round resolves, and it never contains a player who has submitted in the
\* in-progress round.
C25_WaitingForPlayers == []WaitingIsPending /\ [][WaitingIsFullAtRoundStart]_vars

\* C25: in the game of Bob, Charlie and Alice, in that order, Charlie has
\* submitted in the second round and the view waits for Bob and Alice.
C25_Witness ==
    \E gi \in 1 .. Len(games) :
        /\ GamePlayers(games[gi]) = Trio
        /\ Len(games[gi].round_history) = 1
        /\ DOMAIN games[gi].current_round.inputs = {2}
        /\ waiting_for_players(games[gi]) = << [name |-> "Bob"], [name |-> "Alice"] >>

\* The positions in games of the two-player games that end at a first score
\* of at least one.
FirstToScoreDuels ==
    {gi \in 1 .. Len(games) :
        /\ Len(games[gi].players) = 2
        /\ games[gi].settings.end_condition.tag = "FirstToScore"
        /\ games[gi].settings.end_condition.n >= 1}

\* In such a game no score is above n, the two players do not both have n,
\* and the game is Ended exactly when a player has n.
DuelScoresBounded ==
    \A gi \in FirstToScoreDuels :
        LET game_data == games[gi]
            n == game_data.settings.end_condition.n
            atN == {k \in 1 .. 2 : game_data.players[k][2] = n}
        IN /\ \A k \in 1 .. 2 : game_data.players[k][2] <= n
           /\ Cardinality(atN) <= 1
           /\ game_data.status = "Ended" <=> atN # {}

\* Such a game becomes Ended in a play_round call on it, the call that
\* resolves the round in which a score goes from below n to n.
DuelEndsAtFirstN ==
    \/ games' = games
    \/ \A gi \in FirstToScoreDuels :
          LET game_data == games[gi]
              n == game_data.settings.end_condition.n
          IN games'[gi].status # game_data.status =>
                /\ game_data.status = "Running"
                /\ games'[gi].status = "Ended"
                /\ \A k \in 1 .. 2 : game_data.players[k][2] < n
                /\ \E k \in 1 .. 2 : games'[gi].players[k][2] = n
                /\ Len(games'[gi].round_history) = Len(game_data.round_history) + 1
                /\ \E p \in GamePlayerIds(game_data), a \in ActionKind :
                      play_round(p, game_data.id, a)

\* C26: in a 2-player FirstToScore(n) game with n >= 1, no player's score ever
\* exceeds n, at most one player ever reaches n, and the game becomes Ended in
\* exactly the play_round call in which a player's score first reaches n.
C26_FirstToScore == []DuelScoresBounded /\ [][DuelEndsAtFirstN]_vars

\* C26: a first-to-2 game has ended after two rounds, 2 to 0.
C26_Witness ==
    \E gi \in FirstToScoreDuels :
        /\ games[gi].settings.end_condition.n = 2
        /\ games[gi].status = "Ended"
        /\ Len(games[gi].round_history) = 2
        /\ {games[gi].players[k][2] : k \in 1 .. 2} = {0, 2}

\* The results of a round as a multiset: how many times each result occurs.
ResultBag(results) ==
    [r \in Range(results) |-> Cardinality({k \in 1 .. Len(results) : results[k] = r})]

\* What a resolution leaves that does not depend on the order of the pairs:
\* the scores, the multiset of the round's results and the status.
Outcome(game_data) ==
    [scores |-> GameScores(game_data),
     results |-> ResultBag(game_data.round_history[Len(game_data.round_history)].result[1]),
     status |-> game_data.status]

\* The inputs that complete the current round of a running game: the map
\* after the submission of a player who completes it.
CompletingInputs(game_data) ==
    {insert_input(game_data.current_round.inputs, p, a) :
        p \in GamePlayerIds(game_data), a \in ActionKind}
    \cap {inputs \in [GamePlayerIds(game_data) -> ActionKind] : all_played(game_data, inputs)}

\* Whatever the order in which the keys of a complete round are yielded, the
\* resolution has the same outcome.
KeyOrderIsIrrelevant ==
    \A gi \in 1 .. Len(games) :
        games[gi].status = "Running" =>
            \A inputs \in CompletingInputs(games[gi]) :
                \A k1, k2 \in KeyOrders(inputs) :
                    Outcome(resolve_round(games[gi], inputs, k1))
                       = Outcome(resolve_round(games[gi], inputs, k2))

\* The inputs of a round do not depend on the order of the submissions: the
\* submissions of two players commute, and of two submissions of one player
\* the last one stays.
SubmissionOrderIsIrrelevant ==
    \A gi \in 1 .. Len(games) :
        LET inputs == games[gi].current_round.inputs IN
        \A p, q \in GamePlayerIds(games[gi]), a, b \in ActionKind :
            /\ p # q => insert_input(insert_input(inputs, p, a), q, b)
                           = insert_input(insert_input(inputs, q, b), p, a)
            /\ insert_input(insert_input(inputs, p, a), p, b) = insert_input(inputs, p, b)

\* A step that resolves a round has the outcome that the game before the
\* step and the inputs of the resolved round give under every key order, and
\* apart from the inputs the game was not changed since the round began.
ResolvedFromLastActions ==
    \/ games' = games
    \/ \A gi \in 1 .. Len(games) :
          Len(games'[gi].round_history) > Len(games[gi].round_history) =>
              LET inputs == games'[gi].round_history[Len(games'[gi].round_history)].inputs
              IN \A keys \in KeyOrders(inputs) :
                     Outcome(games'[gi]) = Outcome(resolve_round(games[gi], inputs, keys))

\* Between two resolutions a game changes only by its inputs.
RoundKeepsGame ==
    \/ games' = games
    \/ \A gi \in 1 .. Len(games) :
          Len(games'[gi].round_history) = Len(games[gi].round_history) =>
              games'[gi] = [games[gi] EXCEPT
                               !.current_round.inputs = games'[gi].current_round.inputs]

\* C27: the scores after a round resolves, the multiset of that round's pair
\* results and the resulting game status depend only on the game state before
\* the round and on each player's last submitted action: they are the same for
\* every order of submission and for every order in which the pairs are
\* enumerated.
C27_OrderIndependence ==
    /\ [](KeyOrderIsIrrelevant /\ SubmissionOrderIsIrrelevant)
    /\ [][ResolvedFromLastActions /\ RoundKeepsGame]_vars

\* C27: three players have each won one pair of a first round, and two of
\* them have submitted in the second: the next submission completes a round
\* whose keys can be yielded in six orders.
C27_Witness ==
    \E gi \in 1 .. Len(games) :
        /\ Len(games[gi].players) = 3
        /\ Len(games[gi].round_history) = 1
        /\ GameScores(games[gi]) = << 1, 1, 1 >>
        /\ Cardinality(DOMAIN games[gi].current_round.inputs) = 2
        /\ games[gi].status = "Running"

\* The room with one free place that the joins compete for, and the
\* registered players who are not in it when the requests arrive.
RaceRoom == (CHOOSE setup \in LockSetups : TRUE).open[1]
RaceRoomId == RaceRoom.id
Joiners == {Registered[i].id : i \in 1 .. Len(Registered)} \ RoomPlayerIds(RaceRoom)

\* No room holds more players than its settings allow.
RoomsWithinCapacity ==
    \A i \in 1 .. Len(rooms) : Len(rooms[i].players) <= rooms[i].settings.player_count

\* The pairs of handlers that serve joins of the room by two different
\* joiners while no third call has entered the room.
RacingPairs ==
    {pair \in Handlers \X Handlers :
        /\ pair[1] # pair[2]
        /\ \A k \in 1 .. 2 :
              /\ local[pair[k]] # None
              /\ local[pair[k]][1].room_id = RaceRoomId
              /\ local[pair[k]][1].player_id \in Joiners
        /\ local[pair[1]][1].player_id # local[pair[2]][1].player_id
        /\ \A v \in Handlers \ {pair[1], pair[2]} :
              local[v] = None \/ local[v][1].result # "Ok"}

\* Of two racing joins at most one has passed the tests, and once both have
\* returned one has Ok and the other RoomFull.
OneJoinWins ==
    \A pair \in RacingPairs :
        LET first == local[pair[1]][1]
            second == local[pair[2]][1]
        IN /\ ~ (/\ first.result = "Ok" \/ pc[pair[1]] = "push"
                 /\ second.result = "Ok" \/ pc[pair[2]] = "push")
           /\ (first.result # "Pending" /\ second.result # "Pending")
                 => {first.result, second.result} = {"Ok", "RoomFull"}

\* C28: when two distinct registered non-members call join_room concurrently
\* on a room with exactly one free slot, exactly one call succeeds and the
\* other fails with RoomFull, whatever the interleaving, and the room never
\* holds more than settings.player_count players.
C28_ConcurrentJoins == RoomsWithinCapacity /\ OneJoinWins

\* C28: the join of Bob has returned Ok and its handler has not responded
\* yet, and the join of Charlie, which waited for the lock meanwhile, has
\* returned RoomFull.
C28_Witness ==
    /\ pc[2] = "respond"
    /\ local[2] = Some(JoinCall(1, RaceRoomId, "Ok"))
    /\ pc[1] = "drop"
    /\ local[1] = Some(JoinCall(2, RaceRoomId, "RoomFull"))
    /\ \E i \in 1 .. Len(rooms) :
          rooms[i].id = RaceRoomId /\ Len(rooms[i].players) = rooms[i].settings.player_count

\* C29: in every reachable state the keys of a game's current_round.inputs
\* are players of that game and, for a game with at least one player, never
\* all of them (a complete input set is resolved inside the same call); the
\* current_round of an Ended game is empty.
C29_InputsArePartial ==
    \A gi \in 1 .. Len(games) :
        LET game_data == games[gi]
            keys == DOMAIN game_data.current_round.inputs
        IN /\ keys \subseteq GamePlayerIds(game_data)
           /\ Len(game_data.players) >= 1 => keys # GamePlayerIds(game_data)
           /\ game_data.status = "Ended" => game_data.current_round = RoundDataDefault

\* C29: a first game has ended and a second game, of two players, has the
\* input of one of them.
C29_Witness ==
    /\ Len(games) = 2
    /\ games[1].status = "Ended"
    /\ games[1].round_history # << >>
    /\ Len(games[2].players) = 2
    /\ Cardinality(DOMAIN games[2].current_round.inputs) = 1
    /\ games[2].status = "Running"

\* The members of a sequence of players are pairwise different players, each
\* of them an entry of the registry, name included.
MembersAreRegistered(members) ==
    /\ DistinctIds(members)
    /\ \A k \in 1 .. Len(members) :
          \E i \in 1 .. Len(players) :
              /\ players[i].id = members[k].id
              /\ players[i].name = members[k].name

\* C30: in every reachable state no player id appears twice in the player
\* sequence of a room or of a game, and every member of a room or game is a
\* registered player whose stored name equals the registry's name for that id.
C30_MembersAreRegistered ==
    /\ \A i \in 1 .. Len(rooms) : MembersAreRegistered(rooms[i].players)
    /\ \A i \in 1 .. Len(games) : MembersAreRegistered(GamePlayers(games[i]))

\* C30: a game of three players was launched and a room with two members is
\* open.
C30_Witness ==
    /\ \E i \in 1 .. Len(games) : Len(games[i].players) = 3
    /\ \E i \in 1 .. Len(rooms) : Len(rooms[i].players) = 2

====
